---- MODULE Spec2Model ----
(***************************************************************************)
(* miniCRM: distribution of incoming requests among capacity-bounded       *)
(* operators by per-source weights (src/app).                              *)
(*                                                                         *)
(* The database tables are the state.  Every HTTP handler works in its own *)
(* SQLAlchemy session: what it adds or deletes stays pending in that       *)
(* session until its db.commit(), and every query it issues reads the rows *)
(* committed at that moment.  A handler is therefore modelled as the       *)
(* sequence of its queries and its commit; handlers of different requests  *)
(* interleave between those steps.                                         *)
(***************************************************************************)
EXTENDS Integers, Sequences, FiniteSets, TLC

\* ------------------------------------------------------------------ bounds
MaxOperators == 2      \* operator ids 1..MaxOperators
MaxSources == 2        \* source ids 1..MaxSources
MaxCalls == 3          \* create_request calls (each runs once)
MaxWeightRows == 2     \* length of a weight list
MaxWeight == 3         \* largest weight in a request body
MaxLoad == 2           \* largest max_load in a request body
MaxLeads == 1          \* lead external ids 1..MaxLeads
MaxRequests == 2       \* request ids in update_request_status calls
MaxSessions == 2       \* calls of the other handlers that overlap

\* operator_id = None of a Request (models.py: nullable=True)
NoOperator == 0

OperatorIds == 1..MaxOperators
SourceIds == 1..MaxSources
LeadIds == 1..MaxLeads
Calls == 1..MaxCalls
MgmtIds == 1..MaxSessions
SourceNames == {"bot_a"}
OperatorNames == {"ann", "bob"}
Statuses == {"active", "closed"}

VARIABLES
    operators,   \* table operators: id -> [name, is_active, max_load]
    sources,     \* table sources: id -> name
    weights,     \* table operator_source_weights: source id -> rows in id order
    requests,    \* table requests: rows in id order (id = index)
    leads,       \* table leads: the external ids stored
    next_operator_id,
    next_source_id,
    calls,       \* the create_request calls: position and session-local data
    cfg,         \* the configure_source_weights call: position and pending rows
    mgmt         \* the calls of the other writing handlers: position and data

vars == <<operators, sources, weights, requests, leads,
          next_operator_id, next_source_id, calls, cfg, mgmt>>

\* the committed rows, and the counters of the ids given so far
tables == <<operators, sources, weights, requests, leads>>
counters == <<next_operator_id, next_source_id>>

\* ------------------------------------------------------- models.py helpers

get_current_loadCountsNotCancelled(o) ==
    Cardinality({i \in DOMAIN requests :
                    /\ requests[i].operator_id = o
                    /\ requests[i].status # "cancelled"})

get_current_loadCountsAll(o) ==
    Cardinality({i \in DOMAIN requests : requests[i].operator_id = o})

\* Operator.get_current_load: count of the 'active' requests of the operator
get_current_load(o) ==
    Cardinality({i \in DOMAIN requests :
                    /\ requests[i].operator_id = o
                    /\ requests[i].status = "active"})

\* ------------------------------------------------- distribution_service.py

\* get_available_operators lines 38-39: `if not operator.is_active: continue`
skips_inactive(op) == ~op.is_active

\* lines 41-43: `if current_load >= operator.max_load: continue`
skips_full(current_load, op) == current_load >= op.max_load

\* the two tests of one weight row when the operator row and the count are
\* read from one state of the tables
row_is_available(o) ==
    /\ ~skips_inactive(operators[o])
    /\ ~skips_full(get_current_load(o), operators[o])

RECURSIVE SumWeights(_)
SumWeights(av) ==
    IF av = <<>> THEN 0 ELSE av[1].weight + SumWeights(Tail(av))

select_operator_weightedUniform(av, r) ==
    IF av = <<>> THEN NoOperator
    ELSE av[(r % Len(av)) + 1].operator_id

select_operator_weightedInclusive(av, r) ==
    IF av = <<>> THEN NoOperator
    ELSE LET k == CHOOSE k \in 1..Len(av) :
                    /\ SumWeights(SubSeq(av, 1, k)) >= r
                    /\ \A j \in 1..(k - 1) : SumWeights(SubSeq(av, 1, j)) < r
         IN  av[k].operator_id

\* random.choices(operators, weights=weights, k=1)[0] with the draw r in
\* [0, total): the first element whose cumulative weight exceeds r
select_operator_weighted(av, r) ==
    IF av = <<>> THEN NoOperator
    ELSE LET k == CHOOSE k \in 1..Len(av) :
                    /\ SumWeights(SubSeq(av, 1, k)) > r
                    /\ \A j \in 1..(k - 1) : SumWeights(SubSeq(av, 1, j)) <= r
         IN  av[k].operator_id

\* the draws random.choices can make for a candidate list
Draws(av) == 0..(SumWeights(av) - 1)

\* get_available_operators lines 33-47 over the weight rows of a source, all
\* its queries answered by one state of the tables
RECURSIVE get_available_operators(_)
get_available_operators(rows) ==
    IF rows = <<>> THEN <<>>
    ELSE LET rest == get_available_operators(Tail(rows))
         IN  IF row_is_available(rows[1].operator_id)
             THEN <<[operator_id |-> rows[1].operator_id,
                     weight |-> rows[1].weight]>> \o rest
             ELSE rest

assign_operator_to_requestRaisesOnEmpty(av) ==
    IF av = <<>> THEN {}
    ELSE {select_operator_weighted(av, r) : r \in Draws(av)}

\* assign_operator_to_request lines 94-101: what it can return for a
\* candidate list, over all draws
assign_operator_to_request(av) ==
    IF av = <<>> THEN {NoOperator}
    ELSE {select_operator_weighted(av, r) : r \in Draws(av)}


\* ----------------------------------------------------- handlers in flight

\* `loaded` is the session's identity map: the operator rows the call has
\* loaded, each as it was when loaded
IdleCall ==
    [pc |-> "idle", lead |-> 0, new_lead |-> FALSE, source_id |-> 0,
     snapshot |-> <<>>, i |-> 0, loaded |-> <<>>, available |-> <<>>,
     assigned |-> NoOperator, request_id |-> 0]

InFlight(p) ==
    calls[p].pc \in {"lead", "source", "weights", "load", "count",
                     "select", "insert", "respond"}

IdleCfg ==
    [pc |-> "idle", source_id |-> 0, input |-> <<>>, i |-> 0,
     before |-> <<>>]

\* an Optional field of a request body: <<>> for None, <<v>> for a value
Optional(S) == {<<>>} \cup {<<v>> : v \in S}

\* a call of a handler of operators.py or sources.py or of
\* update_request_status: the handler, the id in its path, its body, the
\* row its first query loaded, and the children the flush of a delete
\* loaded (<<>> while not loaded)
IdleSession ==
    [pc |-> "idle", op |-> "none", id |-> 0, operator_name |-> <<>>,
     is_active |-> <<>>,
     max_load |-> <<>>, status |-> "none", name |-> "none",
     loaded |-> <<>>, requests |-> <<>>, weights |-> <<>>]

\* update_operator lines 110-115: an attribute set to the value the session
\* loaded has no net change, and the UPDATE names the changed columns only
ChangesName(m) ==
    IF m.operator_name = <<>> THEN FALSE
    ELSE m.operator_name[1] # m.loaded[1].name

ChangesActive(m) ==
    IF m.is_active = <<>> THEN FALSE
    ELSE m.is_active[1] # m.loaded[1].is_active

ChangesMaxLoad(m) ==
    IF m.max_load = <<>> THEN FALSE
    ELSE m.max_load[1] # m.loaded[1].max_load

\* the flush of the session has a statement to send
SessionWrites(m) ==
    IF m.pc # "commit" THEN FALSE
    ELSE IF m.op = "update_operator"
        THEN ChangesName(m) \/ ChangesActive(m) \/ ChangesMaxLoad(m)
    ELSE IF m.op = "update_request_status" THEN m.status # m.loaded[1]
    ELSE TRUE

\* A session holds its writes from the first statement it sends to its
\* COMMIT: a call from the flush of a new lead, or else from the INSERT of
\* its request; configure_source_weights from its bulk delete; the other
\* handlers from the statements of their commit's flush.
CallMayHoldWrite(q) ==
    InFlight(q) /\ (calls[q].new_lead \/ calls[q].pc = "insert")

CfgMayHoldWrite == cfg.pc \in {"items", "commit"}

SessionMayHoldWrite(s) == SessionWrites(mgmt[s])

\* a lead row another session has flushed and not yet committed
LeadPendingElsewhere(p, lead) ==
    \E q \in Calls \ {p} :
        InFlight(q) /\ calls[q].new_lead /\ calls[q].lead = lead

\* Another session may hold a write it has not committed.  A database that
\* locks as a whole (SQLite) then refuses a write of this session after its
\* timeout ('database is locked').
WriteLockElsewhere(p) ==
    \/ \E q \in Calls \ {p} : CallMayHoldWrite(q)
    \/ CfgMayHoldWrite
    \/ \E s \in DOMAIN mgmt : SessionMayHoldWrite(s)

WriteLockBesideCfg ==
    \/ \E q \in Calls : CallMayHoldWrite(q)
    \/ \E s \in DOMAIN mgmt : SessionMayHoldWrite(s)

WriteLockBesideSession(s) ==
    \/ \E q \in Calls : CallMayHoldWrite(q)
    \/ CfgMayHoldWrite
    \/ \E t \in DOMAIN mgmt \ {s} : SessionMayHoldWrite(t)

\* the largest id of a table, 0 for an empty one
MaxId(table) ==
    IF DOMAIN table = {} THEN 0
    ELSE CHOOSE x \in DOMAIN table : \A y \in DOMAIN table : y <= x

\* the id an INSERT can give a new row: the next of the ids never given
\* (a sequence, AUTOINCREMENT), or one more than the largest id stored
\* (SQLite's rowid, which gives the id of a deleted last row again)
NewIds(table, next) == {next, MaxId(table) + 1}

\* ------------------------------------------------ requests.py create_request

\* the call ends with an unhandled exception: its session is rolled back
Failed(p) ==
    [IdleCall EXCEPT !.pc = "failed", !.lead = calls[p].lead,
                     !.source_id = calls[p].source_id]

\* lines 38-40: the query for the lead
Begin(p, lead, sid) ==
    /\ calls[p].pc = "idle"
    /\ calls' = [calls EXCEPT ![p] =
           [IdleCall EXCEPT !.pc = IF lead \in leads THEN "source"
                                   ELSE "lead",
                            !.lead = lead, !.source_id = sid]]
    /\ UNCHANGED <<tables, counters, cfg, mgmt>>

LeadInsertCommits(p) ==
    /\ calls[p].pc = "lead"
    /\ calls[p].lead \notin leads
    /\ calls' = [calls EXCEPT ![p].pc = "source"]
    /\ leads' = leads \cup {calls[p].lead}
    /\ UNCHANGED <<operators, sources, weights, requests, counters, cfg,
                   mgmt>>

\* lines 42-50: the lead was not found, so it is added and flushed.  The
\* INSERT stays pending in the session.  It raises IntegrityError when the
\* lead has been committed by another call since the query (unique
\* external_id, models.py line 32); while another call holds the same lead
\* pending it waits; it ends with the database's lock error while another
\* session holds a write.
LeadInsert(p) ==
    /\ calls[p].pc = "lead"
    /\ \E ok \in BOOLEAN :
           /\ IF ok
              THEN /\ calls[p].lead \notin leads
                   /\ ~LeadPendingElsewhere(p, calls[p].lead)
              ELSE IF calls[p].lead \in leads THEN TRUE
                   ELSE WriteLockElsewhere(p)
           /\ calls' = [calls EXCEPT ![p] =
                  IF ok THEN [calls[p] EXCEPT !.new_lead = TRUE,
                                              !.pc = "source"]
                  ELSE Failed(p)]
    /\ UNCHANGED <<tables, counters, cfg, mgmt>>

\* lines 52-54: the query for the source; HTTPException(404) when it is
\* missing, and the session is never committed
SourceCheck(p) ==
    /\ calls[p].pc = "source"
    /\ calls' = [calls EXCEPT ![p] =
           IF calls[p].source_id \notin DOMAIN sources
           THEN [IdleCall EXCEPT !.pc = "notfound", !.lead = calls[p].lead,
                                 !.source_id = calls[p].source_id]
           ELSE [calls[p] EXCEPT !.pc = "weights"]]
    /\ UNCHANGED <<tables, counters, cfg, mgmt>>

ReadWeightsOfAllSources(p) ==
    /\ calls[p].pc = "weights"
    /\ LET rows == weights[1] \o weights[2]
       IN  calls' = [calls EXCEPT ![p].snapshot = rows,
                                  ![p].i = 1,
                                  ![p].pc = IF rows = <<>> THEN "select"
                                            ELSE "load"]
    /\ UNCHANGED <<tables, counters, cfg, mgmt>>

\* get_available_operators lines 29-31: one query for the weight rows
ReadWeights(p) ==
    /\ calls[p].pc = "weights"
    /\ LET rows == weights[calls[p].source_id]
       IN  calls' = [calls EXCEPT ![p].snapshot = rows,
                                  ![p].i = 1,
                                  ![p].pc = IF rows = <<>> THEN "select"
                                            ELSE "load"]
    /\ UNCHANGED <<tables, counters, cfg, mgmt>>

\* the loop goes on with the next row, or ends
NextRow(c) == IF c.i = Len(c.snapshot) THEN "select" ELSE "load"

\* the operator of the row the loop is at
RowOperator(c) == c.snapshot[c.i].operator_id

\* lines 36-39: `weight_config.operator` loads the operator row, once per
\* call (later rows of the same operator get the object of the identity
\* map); a row whose operator is gone gives None and the attribute access
\* raises; an inactive operator is skipped without a count
LoadOperator(p) ==
    /\ calls[p].pc = "load"
    /\ LET c == calls[p]
           o == RowOperator(c)
       IN  IF o \in DOMAIN c.loaded
           THEN calls' = [calls EXCEPT
                    ![p].pc = IF skips_inactive(c.loaded[o])
                              THEN NextRow(c) ELSE "count",
                    ![p].i = IF skips_inactive(c.loaded[o])
                             THEN c.i + 1 ELSE c.i]
           ELSE IF o \notin DOMAIN operators
           THEN calls' = [calls EXCEPT ![p] = Failed(p)]
           ELSE calls' = [calls EXCEPT
                    ![p].loaded = [x \in DOMAIN c.loaded \cup {o} |->
                                      IF x = o THEN operators[o]
                                      ELSE c.loaded[x]],
                    ![p].pc = IF skips_inactive(operators[o])
                              THEN NextRow(c) ELSE "count",
                    ![p].i = IF skips_inactive(operators[o])
                             THEN c.i + 1 ELSE c.i]
    /\ UNCHANGED <<tables, counters, cfg, mgmt>>

\* lines 41-45: the count query of get_current_load, compared with the
\* max_load of the operator row as loaded
CountLoad(p) ==
    /\ calls[p].pc = "count"
    /\ LET c == calls[p]
           o == RowOperator(c)
       IN  calls' = [calls EXCEPT
               ![p].available =
                   IF skips_full(get_current_load(o), c.loaded[o])
                   THEN c.available
                   ELSE Append(c.available,
                               [operator_id |-> o,
                                weight |-> c.snapshot[c.i].weight]),
               ![p].i = c.i + 1,
               ![p].pc = NextRow(c)]
    /\ UNCHANGED <<tables, counters, cfg, mgmt>>

\* assign_operator_to_request lines 98-101: None for an empty list, else
\* select_operator_weighted
Select(p) ==
    /\ calls[p].pc = "select"
    /\ LET av == calls[p].available
       IN  \E op \in assign_operator_to_request(av) :
               calls' = [calls EXCEPT ![p].assigned = op,
                                      ![p].pc = "insert"]
    /\ UNCHANGED <<tables, counters, cfg, mgmt>>

\* the call after its commit: the request has its id, the lead is stored
Committed(p) ==
    [calls[p] EXCEPT !.pc = "respond", !.new_lead = FALSE,
                     !.request_id = Len(requests) + 1]

InsertStoresClosed(p) ==
    /\ calls[p].pc = "insert"
    /\ LET c == calls[p]
       IN  /\ requests' = Append(requests,
                  [lead |-> c.lead, source_id |-> c.source_id,
                   operator_id |-> c.assigned, status |-> "closed"])
           /\ leads' = leads \cup {c.lead}
           /\ calls' = [calls EXCEPT ![p] = Committed(p)]
    /\ UNCHANGED <<operators, sources, weights, counters, cfg, mgmt>>

InsertWaitsForSlot(p) ==
    /\ calls[p].pc = "insert"
    /\ LET c == calls[p]
       IN  /\ IF c.assigned = NoOperator THEN TRUE
              ELSE get_current_load(c.assigned) < operators[c.assigned].max_load
           /\ requests' = Append(requests,
                  [lead |-> c.lead, source_id |-> c.source_id,
                   operator_id |-> c.assigned, status |-> "active"])
           /\ leads' = leads \cup {c.lead}
           /\ calls' = [calls EXCEPT ![p] = Committed(p)]
    /\ UNCHANGED <<operators, sources, weights, counters, cfg, mgmt>>

\* the row to insert names a source or an operator deleted since the call
\* read it
ForeignKeyMissing(c) ==
    \/ c.source_id \notin DOMAIN sources
    \/ c.assigned # NoOperator /\ c.assigned \notin DOMAIN operators

\* the commit can raise: a database that enforces foreign keys refuses a
\* row with a missing source or operator (one that does not stores it), a
\* database locked by another session's pending write refuses any write
CommitCanFail(p) == ForeignKeyMissing(calls[p]) \/ WriteLockElsewhere(p)

\* create_request lines 60-68: add the Request and commit (the lead with
\* it), or end with the exception of the commit
Insert(p) ==
    /\ calls[p].pc = "insert"
    /\ \E ok \in BOOLEAN :
           LET c == calls[p]
           IN  /\ IF ok THEN TRUE ELSE CommitCanFail(p)
               /\ requests' =
                      IF ok
                      THEN Append(requests,
                               [lead |-> c.lead, source_id |-> c.source_id,
                                operator_id |-> c.assigned,
                                status |-> "active"])
                      ELSE requests
               /\ leads' = IF ok THEN leads \cup {c.lead} ELSE leads
               /\ calls' = [calls EXCEPT ![p] =
                      IF ok THEN Committed(p) ELSE Failed(p)]
    /\ UNCHANGED <<operators, sources, weights, counters, cfg, mgmt>>

\* lines 69-80: the response.  The commit has expired the rows of the
\* session, so `assigned_operator.name` (line 76) reads the operator row
\* again and raises ObjectDeletedError when it is gone: the call ends with
\* the exception and the request stays stored.  A session that keeps its
\* rows over the commit (expire_on_commit=False) has the name still.
Respond(p) ==
    /\ calls[p].pc = "respond"
    /\ \E ok \in BOOLEAN :
           LET c == calls[p]
           IN  /\ IF ok THEN TRUE
                  ELSE IF c.assigned = NoOperator THEN FALSE
                  ELSE c.assigned \notin DOMAIN operators
               /\ calls' = [calls EXCEPT ![p] =
                      IF ok
                      THEN [IdleCall EXCEPT !.pc = "created",
                                            !.lead = c.lead,
                                            !.source_id = c.source_id,
                                            !.assigned = c.assigned,
                                            !.request_id = c.request_id]
                      ELSE Failed(p)]
    /\ UNCHANGED <<tables, counters, cfg, mgmt>>

\* the calls are numbered in the order they start
StartsNext(p) == IF p = 1 THEN TRUE ELSE calls[p - 1].pc # "idle"

create_request_start(p) ==
    /\ StartsNext(p)
    /\ \E lead \in LeadIds, sid \in SourceIds : Begin(p, lead, sid)

create_request_steps(p) ==
    \/ LeadInsert(p)
    \/ SourceCheck(p)
    \/ ReadWeights(p)
    \/ LoadOperator(p)
    \/ CountLoad(p)
    \/ Select(p)
    \/ Insert(p)
    \/ Respond(p)

\* ----------------------------------- the other handlers, call after call

\* the calls of these handlers are numbered in the order they start
SessionStartsNext(s) ==
    /\ mgmt[s].pc = "idle"
    /\ IF s = 1 THEN TRUE ELSE mgmt[s - 1].pc # "idle"

\* the calls of handler `op` that have not yet committed their new row
Creating(op) ==
    Cardinality({s \in DOMAIN mgmt : mgmt[s].op = op})

\* requests.py update_request_status lines 168-172: the request is loaded
\* (an unknown id is a 404 that changes nothing) and its status set
update_request_status_select(s, rid, status) ==
    /\ SessionStartsNext(s)
    /\ rid \in DOMAIN requests
    /\ mgmt' = [mgmt EXCEPT ![s] =
           [IdleSession EXCEPT !.pc = "commit",
                               !.op = "update_request_status",
                               !.id = rid, !.status = status,
                               !.loaded = <<requests[rid].status>>]]
    /\ UNCHANGED <<tables, counters, calls, cfg>>

\* line 173: the commit sends an UPDATE when the status differs from the
\* one loaded, and nothing when it does not; the UPDATE is refused while
\* another session holds a write
update_request_status_commit(s) ==
    /\ mgmt[s].pc = "commit"
    /\ mgmt[s].op = "update_request_status"
    /\ \E ok \in BOOLEAN :
           LET m == mgmt[s]
           IN  /\ IF ok THEN TRUE
                  ELSE SessionWrites(m) /\ WriteLockBesideSession(s)
               /\ requests' =
                      IF ok /\ SessionWrites(m)
                      THEN [requests EXCEPT ![m.id].status = m.status]
                      ELSE requests
    /\ mgmt' = [mgmt EXCEPT ![s] = IdleSession]
    /\ UNCHANGED <<operators, sources, weights, leads, counters, calls, cfg>>

\* ------------------------------------------------------------ operators.py

\* create_operator lines 24-29: the body is taken as given
create_operator_begin(s, name, is_active, max_load) ==
    /\ SessionStartsNext(s)
    /\ next_operator_id + Creating("create_operator") <= MaxOperators
    /\ mgmt' = [mgmt EXCEPT ![s] =
           [IdleSession EXCEPT !.pc = "commit", !.op = "create_operator",
                               !.operator_name = <<name>>,
                               !.is_active = <<is_active>>,
                               !.max_load = <<max_load>>]]
    /\ UNCHANGED <<tables, counters, calls, cfg>>

\* line 30: the commit stores the row under the id the database gives it
create_operator_commit(s) ==
    /\ mgmt[s].pc = "commit"
    /\ mgmt[s].op = "create_operator"
    /\ \E ok \in BOOLEAN, id \in NewIds(operators, next_operator_id) :
           LET m == mgmt[s]
           IN  /\ IF ok THEN TRUE ELSE WriteLockBesideSession(s)
               /\ operators' =
                      IF ok
                      THEN [o \in DOMAIN operators \cup {id} |->
                               IF o = id
                               THEN [name |-> m.operator_name[1],
                                     is_active |-> m.is_active[1],
                                     max_load |-> m.max_load[1]]
                               ELSE operators[o]]
                      ELSE operators
               /\ next_operator_id' =
                      IF ok THEN next_operator_id + 1 ELSE next_operator_id
    /\ mgmt' = [mgmt EXCEPT ![s] = IdleSession]
    /\ UNCHANGED <<sources, weights, requests, leads, next_source_id,
                   calls, cfg>>

\* update_operator lines 106-108: the operator is loaded; an unknown id is
\* a 404 that changes nothing
update_operator_select(s, o, name, is_active, max_load) ==
    /\ SessionStartsNext(s)
    /\ o \in DOMAIN operators
    /\ mgmt' = [mgmt EXCEPT ![s] =
           [IdleSession EXCEPT !.pc = "commit", !.op = "update_operator",
                               !.id = o, !.operator_name = name,
                               !.is_active = is_active,
                               !.max_load = max_load,
                               !.loaded = <<operators[o]>>]]
    /\ UNCHANGED <<tables, counters, calls, cfg>>

\* lines 110-117: each field given (not None) is set on the loaded row and
\* the commit sends an UPDATE of the columns whose value changed.  The
\* UPDATE is refused while another session holds a write, and raises
\* StaleDataError when the row has been deleted.
update_operator_commit(s) ==
    /\ mgmt[s].pc = "commit"
    /\ mgmt[s].op = "update_operator"
    /\ \E ok \in BOOLEAN :
           LET m == mgmt[s]
           IN  /\ IF ok THEN TRUE
                  ELSE /\ SessionWrites(m)
                       /\ \/ WriteLockBesideSession(s)
                          \/ m.id \notin DOMAIN operators
               /\ operators' =
                      IF ok /\ m.id \in DOMAIN operators
                      THEN [operators EXCEPT
                               ![m.id].name =
                                   IF ChangesName(m) THEN m.operator_name[1]
                                   ELSE @,
                               ![m.id].is_active =
                                   IF ChangesActive(m) THEN m.is_active[1]
                                   ELSE @,
                               ![m.id].max_load =
                                   IF ChangesMaxLoad(m) THEN m.max_load[1]
                                   ELSE @]
                      ELSE operators
    /\ mgmt' = [mgmt EXCEPT ![s] = IdleSession]
    /\ UNCHANGED <<sources, weights, requests, leads, counters, calls, cfg>>

HasWeightRow(o) ==
    \E x \in SourceIds : \E k \in DOMAIN weights[x] :
        weights[x][k].operator_id = o

\* delete_operator lines 138-142: the operator is loaded (an unknown id is
\* a 404) and marked for deletion
delete_operator_select(s, o) ==
    /\ SessionStartsNext(s)
    /\ o \in DOMAIN operators
    /\ mgmt' = [mgmt EXCEPT ![s] =
           [IdleSession EXCEPT !.pc = "children", !.op = "delete_operator",
                               !.id = o, !.loaded = <<operators[o]>>]]
    /\ UNCHANGED <<tables, counters, calls, cfg>>

\* the requests that name the row the session deletes
RequestsOf(m) ==
    {i \in DOMAIN requests :
        IF m.op = "delete_operator" THEN requests[i].operator_id = m.id
        ELSE requests[i].source_id = m.id}

\* whether a weight row names the row the session deletes
HasWeightsOf(m) ==
    IF m.op = "delete_operator" THEN HasWeightRow(m.id)
    ELSE weights[m.id] # <<>>

\* after a load of children: the flush goes on to its statements when both
\* collections are loaded
AfterLoad(m) ==
    IF m.requests # <<>> /\ m.weights # <<>>
    THEN [m EXCEPT !.pc = "commit"] ELSE m

\* The relationships of Operator and Source (models.py lines 16-17 and
\* 49-50) have no delete cascade: the flush of the commit first loads the
\* rows that name the deleted row, one query per relationship, to set
\* their foreign key to NULL.
delete_load_requests(s) ==
    /\ mgmt[s].pc = "children"
    /\ mgmt[s].requests = <<>>
    /\ mgmt' = [mgmt EXCEPT ![s] =
           AfterLoad([mgmt[s] EXCEPT !.requests = <<RequestsOf(mgmt[s])>>])]
    /\ UNCHANGED <<tables, counters, calls, cfg>>

delete_load_weights(s) ==
    /\ mgmt[s].pc = "children"
    /\ mgmt[s].weights = <<>>
    /\ mgmt' = [mgmt EXCEPT ![s] =
           AfterLoad([mgmt[s] EXCEPT !.weights = <<HasWeightsOf(mgmt[s])>>])]
    /\ UNCHANGED <<tables, counters, calls, cfg>>

\* rows committed since the load of the children name the deleted row: a
\* database that enforces foreign keys refuses the DELETE, one that does
\* not leaves them naming it
ReferencedSince(m) ==
    \/ RequestsOf(m) \ m.requests[1] # {}
    \/ HasWeightsOf(m)

\* delete_operator line 143: the flush sets the operator_id of the rows it
\* loaded to NULL, allowed for requests (nullable, models.py line 72), an
\* IntegrityError for operator_source_weights (nullable=False, line 57),
\* which leaves the operator in place; then it deletes the operator.
delete_operator_commit(s) ==
    /\ mgmt[s].pc = "commit"
    /\ mgmt[s].op = "delete_operator"
    /\ \E ok \in BOOLEAN :
           LET m == mgmt[s]
           IN  /\ IF ok THEN ~m.weights[1]
                  ELSE \/ m.weights[1]
                       \/ WriteLockBesideSession(s)
                       \/ ReferencedSince(m)
               /\ operators' =
                      IF ok
                      THEN [x \in DOMAIN operators \ {m.id} |-> operators[x]]
                      ELSE operators
               /\ requests' =
                      IF ok
                      THEN [i \in DOMAIN requests |->
                               IF i \in m.requests[1]
                               THEN [requests[i] EXCEPT
                                        !.operator_id = NoOperator]
                               ELSE requests[i]]
                      ELSE requests
    /\ mgmt' = [mgmt EXCEPT ![s] = IdleSession]
    /\ UNCHANGED <<sources, weights, leads, counters, calls, cfg>>

\* -------------------------------------------------------------- sources.py

\* create_source lines 28-36: a name in use is a 400 that changes nothing
create_source_select(s, name) ==
    /\ SessionStartsNext(s)
    /\ next_source_id + Creating("create_source") <= MaxSources
    /\ \A x \in DOMAIN sources : sources[x] # name
    /\ mgmt' = [mgmt EXCEPT ![s] =
           [IdleSession EXCEPT !.pc = "commit", !.op = "create_source",
                               !.name = name]]
    /\ UNCHANGED <<tables, counters, calls, cfg>>

\* line 37: the commit stores the row under the id the database gives it;
\* it raises IntegrityError when the name has been committed by another
\* call since the check (unique name, models.py line 45)
create_source_commit(s) ==
    /\ mgmt[s].pc = "commit"
    /\ mgmt[s].op = "create_source"
    /\ \E ok \in BOOLEAN, id \in NewIds(sources, next_source_id) :
           LET m == mgmt[s]
               taken == \E x \in DOMAIN sources : sources[x] = m.name
           IN  /\ IF ok THEN ~taken
                  ELSE taken \/ WriteLockBesideSession(s)
               /\ sources' =
                      IF ok
                      THEN [x \in DOMAIN sources \cup {id} |->
                               IF x = id THEN m.name ELSE sources[x]]
                      ELSE sources
               /\ next_source_id' =
                      IF ok THEN next_source_id + 1 ELSE next_source_id
    /\ mgmt' = [mgmt EXCEPT ![s] = IdleSession]
    /\ UNCHANGED <<operators, weights, requests, leads, next_operator_id,
                   calls, cfg>>

\* delete_source lines 180-184: the source is loaded (an unknown id is a
\* 404) and marked for deletion
delete_source_select(s, sid) ==
    /\ SessionStartsNext(s)
    /\ sid \in DOMAIN sources
    /\ mgmt' = [mgmt EXCEPT ![s] =
           [IdleSession EXCEPT !.pc = "children", !.op = "delete_source",
                               !.id = sid, !.loaded = <<sources[sid]>>]]
    /\ UNCHANGED <<tables, counters, calls, cfg>>

\* delete_source line 185: both source_id columns are nullable=False
\* (models.py lines 58, 71), so a source whose flush loaded a weight row or
\* a request cannot be deleted
delete_source_commit(s) ==
    /\ mgmt[s].pc = "commit"
    /\ mgmt[s].op = "delete_source"
    /\ \E ok \in BOOLEAN :
           LET m == mgmt[s]
               loaded == m.weights[1] \/ m.requests[1] # {}
           IN  /\ IF ok THEN ~loaded
                  ELSE \/ loaded
                       \/ WriteLockBesideSession(s)
                       \/ ReferencedSince(m)
               /\ sources' =
                      IF ok
                      THEN [x \in DOMAIN sources \ {m.id} |-> sources[x]]
                      ELSE sources
    /\ mgmt' = [mgmt EXCEPT ![s] = IdleSession]
    /\ UNCHANGED <<operators, weights, requests, leads, counters, calls, cfg>>

\* configure_source_weights lines 90-92: the query for the source
CfgBegin(sid, input) ==
    /\ cfg.pc = "idle"
    /\ cfg' = [IdleCfg EXCEPT
           !.pc = IF sid \in DOMAIN sources THEN "delete" ELSE "notfound",
           !.source_id = sid, !.input = input]
    /\ UNCHANGED <<tables, counters, calls, mgmt>>

CfgDeleteCommitted ==
    /\ cfg.pc = "delete"
    /\ cfg' = [cfg EXCEPT
           !.pc = IF cfg.input = <<>> THEN "commit" ELSE "items",
           !.i = 1, !.before = weights[cfg.source_id]]
    /\ weights' = [weights EXCEPT ![cfg.source_id] = <<>>]
    /\ UNCHANGED <<operators, sources, requests, leads, counters, calls,
                   mgmt>>

\* lines 94-96: the rows of the source are deleted.  The delete is pending
\* in the session: `before` is what the table held, and still holds for
\* every other session.  While another session holds a write, a database
\* that locks as a whole refuses the delete after its timeout and the call
\* ends with that exception.
CfgDelete ==
    /\ cfg.pc = "delete"
    /\ \E ok \in BOOLEAN :
           /\ IF ok THEN TRUE ELSE WriteLockBesideCfg
           /\ cfg' = IF ok
                     THEN [cfg EXCEPT
                              !.pc = IF cfg.input = <<>> THEN "commit"
                                     ELSE "items",
                              !.i = 1, !.before = weights[cfg.source_id]]
                     ELSE [cfg EXCEPT !.pc = "failed"]
    /\ UNCHANGED <<tables, counters, calls, mgmt>>

CfgItemAcceptsAnyWeight ==
    /\ cfg.pc = "items"
    /\ LET row == cfg.input[cfg.i]
       IN  cfg' = [cfg EXCEPT
               !.pc = IF row.operator_id \notin DOMAIN operators
                          THEN "rejected_operator"
                      ELSE IF cfg.i = Len(cfg.input) THEN "commit"
                      ELSE "items",
               !.i = cfg.i + 1]
    /\ UNCHANGED <<tables, counters, calls, mgmt>>

\* the rows the loop has added so far name a source or an operator that
\* has been deleted since the call checked it
CfgAddedForeignKeyMissing ==
    /\ cfg.i > 1
    /\ \/ cfg.source_id \notin DOMAIN sources
       \/ \E k \in 1..(cfg.i - 1) :
              cfg.input[k].operator_id \notin DOMAIN operators

\* lines 99-121: one turn of the loop; a missing operator is a 404 and a
\* weight <= 0 a 400, both raised before any commit.  The query for the
\* operator (lines 100-102) first flushes the rows added in earlier turns
\* when the session autoflushes: a database that enforces foreign keys
\* refuses a row of a missing source or operator and the call ends with
\* that exception.
CfgItem ==
    /\ cfg.pc = "items"
    /\ \E ok \in BOOLEAN :
           LET row == cfg.input[cfg.i]
           IN  /\ IF ok THEN TRUE ELSE CfgAddedForeignKeyMissing
               /\ cfg' =
                      IF ok
                      THEN [cfg EXCEPT
                               !.pc = IF row.operator_id
                                             \notin DOMAIN operators
                                          THEN "rejected_operator"
                                      ELSE IF row.weight <= 0
                                          THEN "rejected_weight"
                                      ELSE IF cfg.i = Len(cfg.input)
                                          THEN "commit"
                                      ELSE "items",
                               !.i = cfg.i + 1]
                      ELSE [cfg EXCEPT !.pc = "failed"]
    /\ UNCHANGED <<tables, counters, calls, mgmt>>

CfgCommitKeepsOldRows ==
    /\ cfg.pc = "commit"
    /\ weights' = [weights EXCEPT ![cfg.source_id] = cfg.before \o cfg.input]
    /\ cfg' = [cfg EXCEPT !.pc = "done"]
    /\ UNCHANGED <<operators, sources, requests, leads, counters, calls,
                   mgmt>>

\* the source or an operator of the new rows has been deleted since the
\* call checked it
CfgForeignKeyMissing ==
    \/ cfg.source_id \notin DOMAIN sources
    \/ \E k \in DOMAIN cfg.input :
           cfg.input[k].operator_id \notin DOMAIN operators

\* line 123: the commit replaces the rows of the source by the new ones; a
\* database that enforces foreign keys refuses rows of a missing source or
\* operator, and the rows of the source stay as they were
CfgCommit ==
    /\ cfg.pc = "commit"
    /\ \E ok \in BOOLEAN :
           /\ IF ok THEN TRUE ELSE CfgForeignKeyMissing
           /\ weights' = IF ok
                         THEN [weights EXCEPT ![cfg.source_id] = cfg.input]
                         ELSE weights
           /\ cfg' = [cfg EXCEPT !.pc = IF ok THEN "done" ELSE "failed"]
    /\ UNCHANGED <<operators, sources, requests, leads, counters, calls,
                   mgmt>>

CfgTerminal ==
    cfg.pc \in {"done", "notfound", "failed", "rejected_operator",
                "rejected_weight"}

\* the response is sent and the session closed
CfgReturn ==
    /\ CfgTerminal
    /\ cfg' = IdleCfg
    /\ UNCHANGED <<tables, counters, calls, mgmt>>

\* request bodies: a list of OperatorSourceWeightCreate
InputRow == [operator_id : OperatorIds, weight : 0..MaxWeight]
InputLists == UNION {[1..n -> InputRow] : n \in 0..MaxWeightRows}

\* the bodies with the smallest weights, a rejected one and an accepted one
SmallInputLists ==
    {in \in InputLists : \A k \in DOMAIN in : in[k].weight <= 1}

\* the steps of configure_source_weights after its first query
configure_source_weights_steps ==
    \/ CfgDelete
    \/ CfgItem
    \/ CfgCommit
    \/ CfgReturn

\* ------------------------------------------------------------ Assign alone

\* an operator as create_operator stores it, under the first of the names
OperatorRow(is_active, max_load) ==
    [name |-> "ann", is_active |-> is_active, max_load |-> max_load]

WeightRow == [operator_id : OperatorIds, weight : 1..MaxWeight]
WeightLists == UNION {[1..n -> WeightRow] : n \in 0..MaxWeightRows}

\* no handler is running
NoneInFlight ==
    /\ calls = [p \in Calls |-> IdleCall]
    /\ cfg = IdleCfg
    /\ mgmt = [s \in MgmtIds |-> IdleSession]

\* Operators and weights as the management API can have left them; one
\* source exists and a lead is stored or not.
InitAssign ==
    /\ operators \in [OperatorIds -> [name : {"ann"}, is_active : BOOLEAN,
                                      max_load : 1..MaxLoad]]
    /\ sources = [s \in {1} |-> "bot_a"]
    /\ weights \in {[s \in SourceIds |-> IF s = 1 THEN w ELSE <<>>] :
                        w \in WeightLists}
    /\ requests = <<>>
    /\ leads \in SUBSET LeadIds
    /\ next_operator_id = MaxOperators + 1
    /\ next_source_id = 2
    /\ NoneInFlight

NextAssign ==
    \E p \in Calls : create_request_start(p) \/ create_request_steps(p)

SpecAssign == InitAssign /\ [][NextAssign]_vars

\* A handler runs on a worker of the server and none of its steps waits for
\* another handler: every call that has begun keeps taking its steps.
FairAssign == \A p \in Calls : WF_vars(create_request_steps(p))

\* every operator has one slot and every row weight 1, the setting in which
\* the calls compete for the last slot of an operator
InitAssignFair ==
    /\ InitAssign
    /\ \A o \in OperatorIds : operators[o].max_load = 1
    /\ \A k \in DOMAIN weights[1] : weights[1][k].weight = 1

SpecAssignFair == InitAssignFair /\ [][NextAssign]_vars /\ FairAssign

\* -------------------------- Assign beside operator and request management

\* the calls that run beside other handlers
SideCalls == 1..(MaxCalls - 1)

\* the one call of another handler that runs beside them
OneSession == {1}

\* Both operators serve the one source, each with the largest capacity;
\* update_operator takes the first from there to every other setting.
InitOps ==
    /\ operators = [o \in OperatorIds |-> OperatorRow(TRUE, MaxLoad)]
    /\ sources = [s \in {1} |-> "bot_a"]
    /\ weights = [s \in SourceIds |->
                     IF s = 1 THEN [o \in OperatorIds |->
                                       [operator_id |-> o, weight |-> 1]]
                     ELSE <<>>]
    /\ requests = <<>>
    /\ leads \in SUBSET LeadIds
    /\ next_operator_id = MaxOperators + 1
    /\ next_source_id = 2
    /\ NoneInFlight

\* the fields a request body of update_operator sets
FieldsSet(b) ==
    {f \in {"name", "is_active", "max_load"} : b[f] # <<>>}

\* request bodies of update_operator that set one field or none
OperatorUpdates ==
    {b \in [name : Optional(OperatorNames), is_active : Optional(BOOLEAN),
            max_load : Optional(0..MaxLoad)] : Cardinality(FieldsSet(b)) <= 1}

\* the operator the update_operator calls are for
UpdatedOperators == {1}

\* the bodies that leave max_load positive: what a call in flight does with
\* a changed operator is then apart from what max_load 0 does
PositiveUpdates == {b \in OperatorUpdates : b.max_load # <<0>>}

NextOps ==
    \/ \E p \in SideCalls : create_request_start(p) \/ create_request_steps(p)
    \/ \E s \in OneSession, o \in UpdatedOperators, b \in PositiveUpdates :
           update_operator_select(s, o, b.name, b.is_active, b.max_load)
    \/ \E s \in OneSession : update_operator_commit(s)
    \/ \E s \in OneSession, rid \in SideCalls, st \in Statuses :
           update_request_status_select(s, rid, st)
    \/ \E s \in OneSession : update_request_status_commit(s)

SpecOps == InitOps /\ [][NextOps]_vars

\* ------------------------------------------------- Assign, two sources

WeightListsOfOne == {w \in WeightLists : Len(w) <= 1}

\* Two sources, each with no weight row or one; the operators are active.
InitScoped ==
    /\ operators \in [OperatorIds -> [name : {"ann"}, is_active : {TRUE},
                                      max_load : 1..MaxLoad]]
    /\ sources = [s \in SourceIds |-> IF s = 1 THEN "bot_a" ELSE "bot_b"]
    /\ weights \in [SourceIds -> WeightListsOfOne]
    /\ requests = <<>>
    /\ leads \in SUBSET LeadIds
    /\ next_operator_id = MaxOperators + 1
    /\ next_source_id = MaxSources + 1
    /\ NoneInFlight

NextScoped ==
    \E p \in SideCalls : create_request_start(p) \/ create_request_steps(p)

SpecScoped == InitScoped /\ [][NextScoped]_vars

\* ------------------------------------------------- Assign beside Reconfigure

\* the calls that run beside configure_source_weights
ReconfCalls == 1..(MaxCalls - 2)

\* One source without weights yet, and one or all of the operators.
InitReconf ==
    /\ operators \in {[o \in 1..n |-> OperatorRow(TRUE, 1)] :
                         n \in OperatorIds}
    /\ sources = [s \in {1} |-> "bot_a"]
    /\ weights = [s \in SourceIds |-> <<>>]
    /\ requests = <<>>
    /\ leads \in SUBSET LeadIds
    /\ next_operator_id = Len(operators) + 1
    /\ next_source_id = 2
    /\ NoneInFlight

NextReconf ==
    \/ \E p \in ReconfCalls : create_request_start(p) \/ create_request_steps(p)
    \/ \E s \in SourceIds, in \in SmallInputLists : CfgBegin(s, in)
    \/ configure_source_weights_steps

SpecReconf == InitReconf /\ [][NextReconf]_vars

\* ------------------------------------------ Reconfigure, call after call

\* All operators and all sources exist, no weights are configured yet, and
\* one request came in before any were.
InitConfigure ==
    /\ operators = [o \in OperatorIds |-> OperatorRow(TRUE, 1)]
    /\ sources = [s \in SourceIds |-> IF s = 1 THEN "bot_a" ELSE "bot_b"]
    /\ weights = [s \in SourceIds |-> <<>>]
    /\ requests = <<[lead |-> 1, source_id |-> 1,
                     operator_id |-> NoOperator, status |-> "active"]>>
    /\ leads = {1}
    /\ next_operator_id = MaxOperators + 1
    /\ next_source_id = MaxSources + 1
    /\ NoneInFlight

NextConfigure ==
    \/ \E s \in SourceIds \cup {MaxSources + 1}, in \in InputLists :
           CfgBegin(s, in)
    \/ configure_source_weights_steps

SpecConfigure == InitConfigure /\ [][NextConfigure]_vars

\* -------------------------------------------- Assign and the request status

\* the status is any string: 'active', and two that are not
ReleaseStatuses == Statuses \cup {"cancelled"}

\* Both operators serve the one source, with any activity and capacity.
InitRelease ==
    /\ operators \in [OperatorIds -> [name : {"ann"}, is_active : BOOLEAN,
                                      max_load : 1..MaxLoad]]
    /\ sources = [s \in {1} |-> "bot_a"]
    /\ weights = [s \in SourceIds |->
                     IF s = 1 THEN [o \in OperatorIds |->
                                       [operator_id |-> o, weight |-> 1]]
                     ELSE <<>>]
    /\ requests = <<>>
    /\ leads \in SUBSET LeadIds
    /\ next_operator_id = MaxOperators + 1
    /\ next_source_id = 2
    /\ NoneInFlight

NextRelease ==
    \/ \E p \in SideCalls : create_request_start(p) \/ create_request_steps(p)
    \/ \E s \in OneSession, rid \in 1..MaxRequests, st \in ReleaseStatuses :
           update_request_status_select(s, rid, st)
    \/ \E s \in OneSession : update_request_status_commit(s)

SpecRelease == InitRelease /\ [][NextRelease]_vars

\* ------------------------------------------------ the API, all handlers

Init ==
    /\ operators = <<>>
    /\ sources = <<>>
    /\ weights = [s \in SourceIds |-> <<>>]
    /\ requests = <<>>
    /\ leads = {}
    /\ next_operator_id = 1
    /\ next_source_id = 1
    /\ NoneInFlight

\* the commits of the handlers of operators.py
operators_steps(s) ==
    \/ create_operator_commit(s)
    \/ update_operator_commit(s)
    \/ delete_load_requests(s)
    \/ delete_load_weights(s)
    \/ delete_operator_commit(s)

\* the server runs the handlers on its worker threads: two calls of the
\* handlers of operators.py overlap
NextOperators ==
    \/ \E s \in MgmtIds, n \in OperatorNames, a \in BOOLEAN,
          m \in 0..MaxLoad : create_operator_begin(s, n, a, m)
    \/ \E s \in MgmtIds, o \in OperatorIds, b \in OperatorUpdates :
           update_operator_select(s, o, b.name, b.is_active, b.max_load)
    \/ \E s \in MgmtIds, o \in OperatorIds : delete_operator_select(s, o)
    \/ \E s \in MgmtIds : operators_steps(s)

SpecOperators == Init /\ [][NextOperators]_vars

\* request bodies of create_operator: an active operator with one slot
NewOperators == [name : {"ann"}, is_active : {TRUE}, max_load : {1}]

\* request bodies of update_operator that take an operator out of service,
\* or change nothing
OperatorChanges ==
    {b \in OperatorUpdates : /\ b.name \in {<<>>, <<"bob">>}
                             /\ b.is_active \in {<<>>, <<FALSE>>}
                             /\ b.max_load \in {<<>>, <<0>>}}

\* request bodies of configure_source_weights with one row or none
ShortInputLists == {in \in SmallInputLists : Len(in) <= 1}

\* the first statements of the handlers of operators.py and sources.py
registry_begins(s) ==
    \/ \E b \in NewOperators :
           create_operator_begin(s, b.name, b.is_active, b.max_load)
    \/ \E o \in UpdatedOperators, b \in OperatorChanges :
           update_operator_select(s, o, b.name, b.is_active, b.max_load)
    \/ \E o \in OperatorIds : delete_operator_select(s, o)
    \/ \E n \in SourceNames : create_source_select(s, n)
    \/ \E x \in SourceIds : delete_source_select(s, x)

\* and their commits
registry_steps(s) ==
    \/ operators_steps(s)
    \/ create_source_commit(s)
    \/ delete_source_commit(s)

\* the handlers that manage operators, sources and weights overlap: one call
\* of operators.py or sources.py and configure_source_weights
NextRegistry ==
    \/ \E s \in OneSession : registry_begins(s) \/ registry_steps(s)
    \/ \E s \in SourceIds, in \in SmallInputLists : CfgBegin(s, in)
    \/ configure_source_weights_steps

SpecRegistry == Init /\ [][NextRegistry]_vars

\* the first statements of the handlers beside create_request and
\* configure_source_weights
ManagementBegins(s) ==
    \/ registry_begins(s)
    \/ \E rid \in 1..MaxRequests, st \in Statuses :
           update_request_status_select(s, rid, st)

\* and their commits
ManagementSteps(s) ==
    \/ registry_steps(s)
    \/ update_request_status_commit(s)

\* the server runs the handlers on its worker threads: the steps of a
\* create_request call overlap with those of one other handler
Next ==
    \/ \E s \in OneSession : cfg.pc = "idle" /\ ManagementBegins(s)
    \/ \E s \in OneSession : ManagementSteps(s)
    \/ \E s \in SourceIds, in \in ShortInputLists :
           (\A t \in MgmtIds : mgmt[t].pc = "idle") /\ CfgBegin(s, in)
    \/ configure_source_weights_steps
    \/ \E p \in ReconfCalls : create_request_start(p) \/ create_request_steps(p)

Spec == Init /\ [][Next]_vars

\* ----------------------------------------- the API, one request at a time

\* no handler is between its first query and its end
Quiet ==
    /\ \A p \in Calls : ~InFlight(p)
    /\ cfg.pc = "idle"
    /\ \A s \in MgmtIds : mgmt[s].pc = "idle"

\* a client that sends a request only after the response to the one before
NextSequential ==
    \/ \E s \in OneSession : Quiet /\ ManagementBegins(s)
    \/ \E s \in OneSession : ManagementSteps(s)
    \/ \E s \in SourceIds, in \in ShortInputLists : Quiet /\ CfgBegin(s, in)
    \/ configure_source_weights_steps
    \/ \E p \in SideCalls : Quiet /\ create_request_start(p)
    \/ \E p \in SideCalls : create_request_steps(p)

SpecSequential == Init /\ [][NextSequential]_vars

\* ================================================================== claims

AvailableIds(av) == {av[k].operator_id : k \in DOMAIN av}

\* the steps of call p on one weight row: the load of the row's operator
\* and the count of its 'active' requests, which keeps the row or not
LoadStep(p) == calls[p].pc = "load" /\ calls'[p] # calls[p]
CountStep(p) == calls[p].pc = "count" /\ calls'[p] # calls[p]
RowAdded(p) == calls'[p].available # calls[p].available

\* C1 (as claimed): with the operators fixed and create_request calls
\* interleaved in any order, no operator ever has more 'active' requests
\* than its max_load.
C1_CapacityInvariant ==
    \A o \in DOMAIN operators :
        get_current_load(o) <= operators[o].max_load

\* C2 (as claimed): operators A = 1 and B = 2, each active with weight 1 and
\* max_load 1, and three concurrent calls for the source: once all three
\* have created their request, exactly one is bound to A, exactly one to B
\* and one to no operator.
C2_Scenario ==
    (/\ operators = [o \in {1, 2} |-> OperatorRow(TRUE, 1)]
     /\ weights[1] = <<[operator_id |-> 1, weight |-> 1],
                       [operator_id |-> 2, weight |-> 1]>>
     /\ \A p \in {1, 2, 3} :
            calls[p].pc = "created" /\ calls[p].source_id = 1)
    => /\ Cardinality({p \in {1, 2, 3} : calls[p].assigned = 1}) = 1
       /\ Cardinality({p \in {1, 2, 3} : calls[p].assigned = 2}) = 1
       /\ Cardinality({p \in {1, 2, 3} : calls[p].assigned = NoOperator}) = 1

\* C3: a call keeps a weight row as a candidate only if, at
\* the time it counts the operator's 'active' requests, the operator has
\* fewer of them than its stored max_load.
C3_BelowStoredMaxLoad ==
    [][\A p \in Calls :
          CountStep(p) /\ RowAdded(p) =>
              get_current_load(RowOperator(calls[p]))
                  < operators[RowOperator(calls[p])].max_load]_vars

\* C4: the operator bound to a newly created request is active
\* when the request is created.
C4_InactiveNeverBound ==
    [][\A p \in Calls :
          (/\ calls[p].pc = "insert"
           /\ calls'[p].pc = "respond"
           /\ calls[p].assigned # NoOperator)
          => operators[calls[p].assigned].is_active]_vars

\* C5: a call for an existing source that finds no eligible operator (no
\* weight rows, or only rows of inactive operators, or an empty candidate
\* list after the filter) gets None from assign_operator_to_request rather
\* than an exception, and then creates its request with operator_id None.
C5_ExhaustionReturnsNone ==
    \A p \in Calls :
        /\ (/\ calls[p].pc \in {"select", "insert"}
            /\ \A k \in DOMAIN calls[p].snapshot :
                   ~operators[calls[p].snapshot[k].operator_id].is_active)
           => calls[p].available = <<>>
        /\ calls[p].pc = "select" /\ calls[p].available = <<>>
           => ENABLED Select(p)
        /\ calls[p].pc = "insert" /\ calls[p].available = <<>>
           => calls[p].assigned = NoOperator /\ ENABLED Insert(p)
        /\ calls[p].pc \in {"respond", "created"}
               /\ calls[p].assigned = NoOperator
           => /\ requests[calls[p].request_id].operator_id = NoOperator
              /\ requests[calls[p].request_id].source_id = calls[p].source_id

\* C5 witness: a request was created without an operator for a source that
\* has weight rows.
C5_Witness ==
    \E p \in Calls :
        /\ calls[p].pc = "created"
        /\ calls[p].assigned = NoOperator
        /\ weights[calls[p].source_id] # <<>>
        /\ requests[calls[p].request_id].operator_id = NoOperator

\* the step that takes request rid out of the 'active' state
Released(rid) ==
    /\ rid \in DOMAIN requests
    /\ rid \in DOMAIN requests'
    /\ requests[rid].status = "active"
    /\ requests'[rid].status # "active"

HasRowFor(s, o) == \E k \in DOMAIN weights[s] : weights[s][k].operator_id = o

\* what a call for source s, run in the state as it is, can return
CanReturn(s) ==
    assign_operator_to_request(get_available_operators(weights[s]))

\* the 'active' requests bound to operator o, counted from the table
ActiveRequests(o) ==
    {i \in DOMAIN requests :
        requests[i].operator_id = o /\ requests[i].status = "active"}

\* call p selects operator o
Returns(p, o) == Select(p) /\ calls'[p].assigned = o

\* C6: when update_request_status takes a request of an operator out of
\* the 'active' state, the operator's load falls by one, and an active
\* operator with a weight row that was at its max_load is again among what
\* a call for the source can return; a call that counts the requests of an
\* operator with fewer 'active' requests than its max_load keeps the
\* operator's row as a candidate, and a call can select every candidate it
\* kept.
C6_ReleaseFreesCapacity ==
    /\ [][\A rid \in DOMAIN requests : \A s \in DOMAIN sources :
             LET o == requests[rid].operator_id
             IN  /\ Released(rid) /\ o \in DOMAIN operators =>
                        /\ Cardinality(ActiveRequests(o)')
                               = Cardinality(ActiveRequests(o)) - 1
                        /\ get_current_load(o)'
                               = Cardinality(ActiveRequests(o)')
                 /\ (/\ Released(rid)
                     /\ o \in DOMAIN operators
                     /\ operators[o].is_active
                     /\ Cardinality(ActiveRequests(o)) = operators[o].max_load
                     /\ HasRowFor(s, o))
                    => o \in CanReturn(s)']_vars
    /\ [][\A p \in Calls :
             LET c == calls[p]
             IN  CountStep(p)
                     /\ Cardinality(ActiveRequests(RowOperator(c)))
                            < operators[RowOperator(c)].max_load =>
                     calls'[p].available =
                         Append(c.available,
                                [operator_id |-> RowOperator(c),
                                 weight |-> c.snapshot[c.i].weight])]_vars
    /\ [](\A p \in Calls :
             calls[p].pc = "select" =>
                 \A o \in AvailableIds(calls[p].available) :
                     ENABLED Returns(p, o))

\* C6 witness: a request of an active operator has left the 'active'
\* state, which took the operator from its max_load to one below, and a
\* call for the source is about to count the operator's requests.
C6_Witness ==
    \E p \in Calls : \E rid \in DOMAIN requests :
        LET c == calls[p]
            o == requests[rid].operator_id
        IN  /\ c.pc = "count"
            /\ RowOperator(c) = o
            /\ o \in DOMAIN operators
            /\ operators[o].is_active
            /\ requests[rid].status # "active"
            /\ Cardinality(ActiveRequests(o)) + 1 = operators[o].max_load

CfgRejected == cfg.pc \in {"rejected_operator", "rejected_weight"}

\* C7: a configure_source_weights call whose list holds a weight <= 0 never
\* reaches its commit; when a row is rejected, the stored rows of the source
\* are the ones stored before the call, and closing the rejected call
\* changes no stored row.
C7_ConfigValidation ==
    /\ [](cfg.pc \in {"commit", "done"} =>
              \A k \in DOMAIN cfg.input : cfg.input[k].weight > 0)
    /\ [](CfgRejected => weights[cfg.source_id] = cfg.before)
    /\ [](cfg.pc = "rejected_weight" => cfg.input[cfg.i - 1].weight <= 0)
    /\ [][CfgRejected => weights' = weights]_vars

\* C7 witness: the second row of a list was rejected for its weight, after
\* the first row had been added, for a source that had rows stored.
C7_Witness ==
    /\ cfg.pc = "rejected_weight"
    /\ cfg.i = 3
    /\ cfg.before # <<>>
    /\ weights[cfg.source_id] = cfg.before

\* C8: the weight rows a call reads are the complete rows stored before a
\* configure_source_weights call that is in flight for the source, or the
\* complete list of a call that has committed, never a part of either; the
\* commit of a reconfiguration changes nothing a call in flight has read.
C8_ReconfigureAtomic ==
    /\ [][\A p \in Calls :
             calls[p].pc = "weights" /\ calls'[p].pc # "weights" =>
                 calls'[p].snapshot =
                     IF cfg.source_id # calls[p].source_id
                         THEN weights[calls[p].source_id]
                     ELSE IF cfg.pc \in {"items", "commit"} \/ CfgRejected
                         THEN cfg.before
                     ELSE IF cfg.pc = "done" THEN cfg.input
                     ELSE weights[calls[p].source_id]]_vars
    /\ [][cfg.pc = "commit" /\ cfg'.pc = "done" => calls' = calls]_vars

\* C8 witness: a call holds the old rows of its source while a
\* reconfiguration of that source to other rows is in flight.
C8_Witness ==
    \E p \in Calls :
        /\ calls[p].pc \in {"load", "count", "select", "insert"}
        /\ cfg.pc \in {"items", "commit"}
        /\ cfg.source_id = calls[p].source_id
        /\ cfg.before # <<>>
        /\ cfg.before # cfg.input
        /\ calls[p].snapshot = cfg.before

\* C9: a call for a source id that does not exist fails with 404 at the
\* source check, before it reads a weight row or selects an operator, and
\* that step changes no stored request, lead or operator; a call gets past
\* the check only for a source that exists, and a lead the failed call had
\* added is not stored by it.
C9_SourceNotFound ==
    /\ [][\A p \in Calls :
             /\ calls[p].pc # "notfound" /\ calls'[p].pc = "notfound" =>
                    /\ calls[p].pc = "source"
                    /\ requests' = requests
                    /\ leads' = leads
                    /\ operators' = operators
                    /\ weights' = weights
             /\ calls[p].pc = "source"
                    /\ calls[p].source_id \notin DOMAIN sources
                    /\ calls'[p] # calls[p] =>
                    calls'[p].pc = "notfound"
             /\ calls[p].pc \in {"lead", "source"} /\ calls'[p] # calls[p] =>
                    leads' = leads]_vars
    /\ [](\A p \in Calls :
             /\ calls[p].pc = "notfound" =>
                    /\ calls[p].source_id \notin DOMAIN sources
                    /\ calls[p].assigned = NoOperator
                    /\ calls[p].request_id = 0
                    /\ ~calls[p].new_lead
             /\ calls[p].pc \in {"weights", "load", "count", "select",
                                  "insert", "respond", "created"} =>
                    calls[p].source_id \in DOMAIN sources)

\* C9 witness: a call with a lead not stored before failed with 404 and the
\* lead is not stored.
C9_Witness ==
    \E p \in Calls :
        /\ calls[p].pc = "notfound"
        /\ calls[p].lead \notin leads
        /\ requests = <<>>

\* C10: once a request is stored, no step removes it or changes its
\* operator_id.
C10_BindingNeverChanges ==
    [][\A i \in DOMAIN requests :
          /\ i \in DOMAIN requests'
          /\ requests'[i].operator_id = requests[i].operator_id]_vars

\* C11: the stored weight rows of a source hold at most one row per
\* operator.
C11_WeightRowsUnique ==
    \A s \in SourceIds : \A j, k \in DOMAIN weights[s] :
        weights[s][j].operator_id = weights[s][k].operator_id => j = k

\* the part of a call that is assign_operator_to_request
InAssign(p) == calls[p].pc \in {"weights", "load", "count", "select"}

\* a call that has begun and ended
Ended(p) == calls[p].pc \in {"created", "notfound", "failed"}

\* C12: the assignment of every call ends, with one operator or with none;
\* it evaluates each row it read once and selects once, an operator only
\* from a non-empty candidate list; the call then ends, no step of it ever
\* waits for another call, and it takes no step after its end.
C12_AssignTerminates ==
    /\ \A p \in Calls : InAssign(p) ~> (calls[p].pc = "insert")
    /\ \A p \in Calls : InFlight(p) ~> Ended(p)
    /\ [](\A p \in Calls : InFlight(p) => ENABLED create_request_steps(p))
    /\ [][\A p \in Calls :
             /\ InAssign(p) =>
                    /\ InAssign(p)' \/ calls'[p].pc = "insert"
                    /\ calls'[p].i >= calls[p].i
                    /\ calls'[p].i <= Len(calls'[p].snapshot) + 1
             /\ CountStep(p) => calls'[p].i = calls[p].i + 1
             /\ calls[p].pc = "select" /\ calls'[p] # calls[p] =>
                    /\ calls'[p].pc = "insert"
                    /\ calls'[p].assigned # NoOperator =>
                           /\ Len(calls[p].available) >= 1
                           /\ calls'[p].assigned
                                  \in AvailableIds(calls[p].available)
             /\ calls[p].pc = "insert" /\ calls'[p] # calls[p] =>
                    \/ calls'[p].pc = "failed"
                    \/ /\ calls'[p].pc = "respond"
                       /\ calls'[p].assigned = calls[p].assigned
             /\ calls[p].pc = "respond" /\ calls'[p] # calls[p] =>
                    \/ calls'[p].pc = "failed"
                    \/ /\ calls'[p].pc = "created"
                       /\ calls'[p].assigned = calls[p].assigned
             /\ Ended(p) => calls'[p] = calls[p]]_vars

\* C12 witness: three calls have ended, one bound to an operator and one to
\* none, the third having run beside them.
C12_Witness ==
    /\ \A p \in Calls : calls[p].pc = "created"
    /\ \E p, q \in Calls :
           /\ calls[p].assigned # NoOperator
           /\ calls[q].assigned = NoOperator

\* the first entry of a candidate list whose cumulative weight exceeds r,
\* found by walking the list and taking each weight off the draw
RECURSIVE FirstExceeding(_, _)
FirstExceeding(av, r) ==
    IF r < av[1].weight THEN av[1].operator_id
    ELSE FirstExceeding(Tail(av), r - av[1].weight)

\* C13: for a candidate list and a draw r in [0, total weight) the selection
\* returns one operator, the first whose cumulative weight exceeds r; what a
\* call holds after selecting is that operator for one of the draws.
C13_SelectionDeterministic ==
    \A p \in Calls :
        LET av == calls[p].available
        IN  /\ calls[p].pc = "select" /\ av # <<>> =>
                   \A r \in Draws(av) :
                       select_operator_weighted(av, r) = FirstExceeding(av, r)
            /\ calls[p].pc = "insert" /\ av # <<>> =>
                   \E r \in Draws(av) :
                       calls[p].assigned = FirstExceeding(av, r)

\* C13 witness: a call selected the second of two candidates of different
\* weights.
C13_Witness ==
    \E p \in Calls :
        LET av == calls[p].available
        IN  /\ calls[p].pc = "insert"
            /\ Len(av) = 2
            /\ av[1].operator_id # av[2].operator_id
            /\ av[1].weight # av[2].weight
            /\ calls[p].assigned = av[2].operator_id

\* the weight a candidate list gives to operator o
RECURSIVE WeightOf(_, _)
WeightOf(av, o) ==
    IF av = <<>> THEN 0
    ELSE (IF av[1].operator_id = o THEN av[1].weight ELSE 0)
             + WeightOf(Tail(av), o)

\* the draws for which the selection returns operator o
DrawsFor(av, o) == {r \in Draws(av) : select_operator_weighted(av, r) = o}

\* C14: of the draws the selection can make for a candidate list, as many
\* as the sum of the eligible weights, the number that return an operator
\* is that operator's weight; with weights 1 and 3, three draws of four
\* return the second operator.
C14_WeightProportional ==
    \A p \in Calls :
        LET av == calls[p].available
        IN  calls[p].pc = "select" /\ av # <<>> =>
                /\ Cardinality(Draws(av)) = SumWeights(av)
                /\ \A o \in OperatorIds :
                       Cardinality(DrawsFor(av, o)) = WeightOf(av, o)
                /\ (Len(av) = 2 /\ av[1].weight = 1 /\ av[2].weight = 3
                        /\ av[1].operator_id # av[2].operator_id) =>
                       4 * Cardinality(DrawsFor(av, av[2].operator_id))
                           = 3 * Cardinality(Draws(av))

\* C14 witness: a call is about to select between an operator of weight 1
\* and an operator of weight 3, both eligible.
C14_Witness ==
    \E p \in Calls :
        LET av == calls[p].available
        IN  /\ calls[p].pc = "select"
            /\ Len(av) = 2
            /\ av[1].operator_id # av[2].operator_id
            /\ av[1].weight = 1
            /\ av[2].weight = 3
            /\ Cardinality(DrawsFor(av, av[2].operator_id)) = 3

\* C15: a call never binds its request to an operator that has reached its
\* max_load by the time of the binding.
C15_NoBindAtMaxLoad ==
    [][\A p \in Calls :
          (/\ calls[p].pc = "insert"
           /\ calls'[p].pc = "respond"
           /\ calls[p].assigned # NoOperator) =>
              get_current_load(calls[p].assigned)
                  < operators[calls[p].assigned].max_load]_vars

\* C16: with the handlers run one at a time, in every state each operator
\* has at most max_load 'active' requests.
C16_SequentialCapacity ==
    ~\E o \in DOMAIN operators :
        get_current_load(o) > operators[o].max_load

\* C17: the load of an operator grows only in a step that stores a new
\* request; a step that changes the status of a stored request never
\* increases it.
C17_LoadGrowsOnlyByCreate ==
    [][Len(requests') = Len(requests) =>
          \A o \in DOMAIN operators \cap DOMAIN operators' :
              get_current_load(o)' <= get_current_load(o)]_vars

\* C18: every stored operator has max_load > 0.
C18_MaxLoadPositive ==
    \A o \in DOMAIN operators : operators[o].max_load > 0

RowsPositive(rows) == \A k \in DOMAIN rows : rows[k].weight > 0

\* C19: whatever configure_source_weights calls were accepted or rejected,
\* every stored weight row has weight > 0, and so has every row a call has
\* read and every candidate it passes to the selection.
C19_WeightsPositive ==
    /\ \A s \in SourceIds : RowsPositive(weights[s])
    /\ \A p \in Calls :
           /\ RowsPositive(calls[p].snapshot)
           /\ RowsPositive(calls[p].available)

\* C19 witness: a list was rejected for a weight <= 0 while rows of an
\* earlier list are stored and a call is about to select among candidates.
C19_Witness ==
    /\ cfg.pc = "rejected_weight"
    /\ weights[cfg.source_id] # <<>>
    /\ \E p \in Calls :
           /\ calls[p].pc = "select"
           /\ calls[p].available # <<>>

\* C20: the commit of configure_source_weights(S, W) leaves W as the rows of
\* S, none of the rows S had before unless W repeats it, and changes no row
\* of another source, no operator, no source and no request.
C20_ReconfigureReplaces ==
    /\ [](cfg.pc = "done" => weights[cfg.source_id] = cfg.input)
    /\ [][cfg.pc = "commit" /\ cfg'.pc = "done" =>
             /\ weights'[cfg.source_id] = cfg.input
             /\ \A s \in SourceIds \ {cfg.source_id} :
                    weights'[s] = weights[s]
             /\ operators' = operators
             /\ sources' = sources
             /\ requests' = requests
             /\ leads' = leads]_vars

\* C20 witness: a source that had rows got a list sharing no row with them
\* while the other source keeps rows of its own.
C20_Witness ==
    /\ cfg.pc = "done"
    /\ cfg.before # <<>>
    /\ cfg.input # <<>>
    /\ \A j \in DOMAIN cfg.before : \A k \in DOMAIN cfg.input :
           cfg.before[j] # cfg.input[k]
    /\ \E s \in SourceIds \ {cfg.source_id} : weights[s] # <<>>
    /\ requests # <<>>

\* C21: a step that gives a request that is not 'active' another status
\* that is not 'active' changes the load of no operator, and the load of an
\* operator is never negative nor more than the requests bound to it.
C21_DoubleReleaseHarmless ==
    /\ [][\A rid \in DOMAIN requests :
             (/\ rid \in DOMAIN requests'
              /\ requests[rid].status # "active"
              /\ requests'[rid].status # "active"
              /\ requests'[rid].status # requests[rid].status) =>
                 \A o \in DOMAIN operators :
                     get_current_load(o)' = get_current_load(o)]_vars
    /\ [](\A o \in DOMAIN operators :
             /\ get_current_load(o) >= 0
             /\ get_current_load(o) <=
                    Cardinality({i \in DOMAIN requests :
                                    requests[i].operator_id = o}))

\* C21 witness: of two requests of one operator, one was released and given
\* a second non-active status while the other still counts as its load.
C21_Witness ==
    \E i, j \in DOMAIN requests :
        LET o == requests[i].operator_id
        IN  /\ o \in DOMAIN operators
            /\ requests[j].operator_id = o
            /\ requests[i].status = "cancelled"
            /\ requests[j].status = "active"
            /\ get_current_load(o) = 1

\* the operator of the request a step stores
StoredOperator == requests'[Len(requests')].operator_id

\* C22: the step of a call that stores its request raises the load of the
\* operator bound to it by 1 and of no other operator; with none bound it
\* changes no load; no other step of a call changes a load, and no step of
\* a call changes an operator's is_active or max_load or a weight row.
C22_AssignFrame ==
    [][/\ operators' = operators
       /\ weights' = weights
       /\ Len(requests') \in {Len(requests), Len(requests) + 1}
       /\ Len(requests') = Len(requests) + 1 =>
              /\ \A i \in DOMAIN requests : requests'[i] = requests[i]
              /\ \A o \in DOMAIN operators :
                     get_current_load(o)' =
                         get_current_load(o)
                             + (IF o = StoredOperator THEN 1 ELSE 0)
       /\ Len(requests') = Len(requests) =>
              \A o \in DOMAIN operators :
                  get_current_load(o)' = get_current_load(o)]_vars

\* C22 witness: one call bound an operator, whose load is 1, another call
\* bound none, and the other operator of the source has load 0.
C22_Witness ==
    \E p, q \in Calls : \E o2 \in DOMAIN operators :
        /\ calls[p].pc = "created"
        /\ calls[q].pc = "created"
        /\ calls[p].assigned \in DOMAIN operators
        /\ calls[q].assigned = NoOperator
        /\ get_current_load(calls[p].assigned) = 1
        /\ o2 # calls[p].assigned
        /\ HasRowFor(calls[p].source_id, o2)
        /\ get_current_load(o2) = 0

SnapshotIds(p) ==
    {calls[p].snapshot[k].operator_id : k \in DOMAIN calls[p].snapshot}

\* C23: the rows a call reads are the rows of its source; the operator it
\* selects has a row among them, and the operator bound to the request it
\* stores has a weight row for the request's source.
C23_SourceScoped ==
    /\ [][\A p \in Calls :
             calls[p].pc = "weights" /\ calls'[p].pc # "weights" =>
                 calls'[p].snapshot = weights[calls[p].source_id]]_vars
    /\ [](\A p \in Calls :
             /\ calls[p].pc = "insert" =>
                    calls[p].assigned \in SnapshotIds(p) \cup {NoOperator}
             /\ calls[p].pc \in {"respond", "created"}
                    /\ calls[p].assigned # NoOperator =>
                    /\ requests[calls[p].request_id].operator_id
                           = calls[p].assigned
                    /\ HasRowFor(requests[calls[p].request_id].source_id,
                                 calls[p].assigned))

\* C23 witness: a request of a source whose only operator was full got no
\* operator, while the other operator, free and configured for the other
\* source only, stayed without load.
C23_Witness ==
    \E p \in Calls : \E o \in DOMAIN operators :
        LET s == calls[p].source_id
        IN  /\ calls[p].pc = "created"
            /\ calls[p].assigned = NoOperator
            /\ weights[s] # <<>>
            /\ ~HasRowFor(s, o)
            /\ \E s2 \in SourceIds \ {s} : HasRowFor(s2, o)
            /\ operators[o].is_active
            /\ get_current_load(o) = 0

====
